---- MODULE Spec2Model ----
(***************************************************************************)
(* A model of rfcli (src/main.rs): the text normalizer clean_rfc_text, the *)
(* candidate filter of fuzzy_select_rfc, the document cache fetch_rfc, the *)
(* index cache refresh and the read session loop of main.                  *)
(*                                                                         *)
(* Text is a sequence of characters; a character is a one-element name     *)
(* (a string).  The characters that the code treats specially have names.  *)
(***************************************************************************)
EXTENDS Integers, Sequences, FiniteSets, TLC

\* ------------------------------------------------------------------ text
\* The form-feed character '\x0C' (main.rs:201).
FF == "\\f"
\* The newline character.
NL == "\\n"
\* The carriage return, which str::lines strips before a newline.
CR == "\\r"
\* The space character.
SP == " "
\* A digit that is not ASCII (ARABIC-INDIC DIGIT THREE): the regex class \d
\* is Unicode-aware, char::is_ascii_digit and u32::from_str are not.
ArabicThree == "U+0663"

AsciiDigits == {"0", "1", "2", "3", "4", "5", "6", "7", "8", "9"}
\* The regex class \d of main.rs:202.
RegexDigits == AsciiDigits \cup {ArabicThree}
\* What str::trim and str::split_whitespace take for whitespace.
Whitespace == {SP, NL, CR, FF}

\* The literals of header_footer_re (main.rs:202).
PageOpen == <<"[", "P", "a", "g", "e", SP>>
PageClose == "]"
RfcOpen == <<"R", "F", "C", SP>>

\* The text s cut at every occurrence of the character c: at least one
\* segment, the last one empty when s ends with c.
RECURSIVE SplitOn(_, _)
SplitOn(s, c) ==
  IF \A i \in 1..Len(s) : s[i] # c
  THEN <<s>>
  ELSE LET i == CHOOSE k \in 1..Len(s) :
                  s[k] = c /\ \A j \in 1..(k - 1) : s[j] # c
       IN <<SubSeq(s, 1, i - 1)>> \o SplitOn(SubSeq(s, i + 1, Len(s)), c)

\* slice::join: the segments with the character c between them.
RECURSIVE JoinWith(_, _)
JoinWith(segs, c) ==
  IF segs = <<>> THEN <<>>
  ELSE IF Len(segs) = 1 THEN segs[1]
  ELSE segs[1] \o <<c>> \o JoinWith(Tail(segs), c)

\* ------------------------------------------------------- clean_rfc_text
\* A replacement of the first form feed only (replacen with a count of 1).
RECURSIVE no_feeds_first_only(_)
no_feeds_first_only(raw) ==
  IF raw = <<>> THEN <<>>
  ELSE IF raw[1] = FF THEN Tail(raw)
  ELSE <<raw[1]>> \o no_feeds_first_only(Tail(raw))

\* raw_text.replace('\x0C', "") (main.rs:201).
no_feeds(raw) == SelectSeq(raw, LAMBDA ch : ch # FF)

\* A line matched by ^.*\[Page \d+\].*$ : it holds "[Page ", one or more
\* digits and "]".
MatchesPageFooter(line) ==
  \E i \in 1..Len(line) :
    /\ i + 5 <= Len(line)
    /\ SubSeq(line, i, i + 5) = PageOpen
    /\ \E j \in (i + 7)..Len(line) :
         /\ line[j] = PageClose
         /\ \A k \in (i + 6)..(j - 1) : line[k] \in RegexDigits

\* A line matched by ^RFC \d+.*$ : it begins with "RFC " and a digit.
MatchesRunningHeader(line) ==
  /\ Len(line) >= 5
  /\ SubSeq(line, 1, 4) = RfcOpen
  /\ line[5] \in RegexDigits

\* header_footer_re.replace_all(&no_feeds, "") (main.rs:202-203).  The
\* pattern is multi-line and "." stops at a newline, so a match is one whole
\* line between newlines, and replacing it leaves the line empty.
header_footer_re(text) ==
  LET lines == SplitOn(text, NL)
      kept == [i \in 1..Len(lines) |->
                 IF MatchesPageFooter(lines[i]) \/ MatchesRunningHeader(lines[i])
                 THEN <<>> ELSE lines[i]]
  IN JoinWith(kept, NL)

\* The least repetition count of \n{3,} (main.rs:204).
MultiSpaceMin == 3

\* How many newlines the text begins with.
RECURSIVE LeadingNewlines(_)
LeadingNewlines(s) ==
  IF s = <<>> \/ s[1] # NL THEN 0 ELSE 1 + LeadingNewlines(Tail(s))

\* A collapse of each run of three or more newlines into one newline (the
\* replacement text "\n").
RECURSIVE multi_space_re_single(_)
multi_space_re_single(s) ==
  IF s = <<>> THEN <<>>
  ELSE IF s[1] # NL THEN <<s[1]>> \o multi_space_re_single(Tail(s))
  ELSE LET r == LeadingNewlines(s)
       IN (IF r >= MultiSpaceMin THEN <<NL>> ELSE SubSeq(s, 1, r))
            \o multi_space_re_single(SubSeq(s, r + 1, Len(s)))

\* multi_space_re.replace_all(&cleaned, "\n\n") (main.rs:204-205): scanning
\* from the left, each maximal run of three or more newlines becomes two.
RECURSIVE multi_space_re(_)
multi_space_re(s) ==
  IF s = <<>> THEN <<>>
  ELSE IF s[1] # NL THEN <<s[1]>> \o multi_space_re(Tail(s))
  ELSE LET r == LeadingNewlines(s)
       IN (IF r >= MultiSpaceMin THEN <<NL, NL>> ELSE SubSeq(s, 1, r))
            \o multi_space_re(SubSeq(s, r + 1, Len(s)))

\* A normalizer that collapses the newlines before it removes the artifact
\* lines (the two regex steps swapped).
clean_rfc_text_swapped(raw_text) ==
  header_footer_re(multi_space_re(no_feeds(raw_text)))

\* fn clean_rfc_text (main.rs:200-206).
clean_rfc_text(raw_text) ==
  multi_space_re(header_footer_re(no_feeds(raw_text)))

\* --------------------------------------------- fuzzy_select_rfc: filtering
\* str::lines (main.rs:227): the text cut at newlines, without the empty piece
\* after a final newline, and without the carriage return that ends a piece
\* a newline followed.
Lines(text) ==
  LET segs == SplitOn(text, NL)
      n == IF segs[Len(segs)] = <<>> THEN Len(segs) - 1 ELSE Len(segs)
  IN [i \in 1..n |->
        IF i < Len(segs) /\ segs[i] # <<>> /\ segs[i][Len(segs[i])] = CR
        THEN SubSeq(segs[i], 1, Len(segs[i]) - 1)
        ELSE segs[i]]

\* str::trim_start.
RECURSIVE trim_start(_)
trim_start(s) ==
  IF s # <<>> /\ s[1] \in Whitespace THEN trim_start(Tail(s)) ELSE s

\* str::trim_end.
RECURSIVE trim_end(_)
trim_end(s) ==
  IF s # <<>> /\ s[Len(s)] \in Whitespace
  THEN trim_end(SubSeq(s, 1, Len(s) - 1)) ELSE s

\* str::trim (main.rs:228).
trim(s) == trim_end(trim_start(s))

\* A filter that looks at the first character of the line as it stands
\* (the trim() dropped).
is_candidate_untrimmed(line) ==
  line # <<>> /\ line[1] \in AsciiDigits

\* The closure of the filter (main.rs:228):
\* line.trim().chars().next().map(|c| c.is_ascii_digit()).unwrap_or(false).
is_candidate(line) ==
  LET t == trim(line) IN t # <<>> /\ t[1] \in AsciiDigits

\* filtered_index (main.rs:227-230): the candidate lines joined by newlines.
filtered_index(index_data) ==
  JoinWith(SelectSeq(Lines(index_data), is_candidate), NL)

\* The items SkimItemReader::of_bufread makes of the text it is given
\* (main.rs:232-233): one per line.
skim_items(text) ==
  IF text = <<>> THEN <<>> ELSE SplitOn(text, NL)

\* The candidate list the selector is run with (main.rs:225-247).
candidates(index_data) == skim_items(filtered_index(index_data))

\* ---------------------------------------------- fuzzy_select_rfc: parsing
\* Option::None of an Option<u32>.
NoNumber == -1

\* The digits of u32::MAX, 4294967295.
U32MaxDigits == <<"4", "2", "9", "4", "9", "6", "7", "2", "9", "5">>

DigitValue(ch) ==
  CASE ch = "0" -> 0 [] ch = "1" -> 1 [] ch = "2" -> 2 [] ch = "3" -> 3
    [] ch = "4" -> 4 [] ch = "5" -> 5 [] ch = "6" -> 6 [] ch = "7" -> 7
    [] ch = "8" -> 8 [] ch = "9" -> 9

\* The value of a sequence of ASCII digits.
RECURSIVE DecimalValue(_)
DecimalValue(ds) ==
  IF ds = <<>> THEN 0
  ELSE 10 * DecimalValue(SubSeq(ds, 1, Len(ds) - 1)) + DigitValue(ds[Len(ds)])

RECURSIVE StripZeros(_)
StripZeros(ds) ==
  IF ds # <<>> /\ ds[1] = "0" THEN StripZeros(Tail(ds)) ELSE ds

\* Digit strings of equal length, compared as numbers.
RECURSIVE DigitsLeq(_, _)
DigitsLeq(a, b) ==
  IF a = <<>> THEN TRUE
  ELSE IF DigitValue(a[1]) < DigitValue(b[1]) THEN TRUE
  ELSE IF DigitValue(a[1]) > DigitValue(b[1]) THEN FALSE
  ELSE DigitsLeq(Tail(a), Tail(b))

\* Whether a sequence of ASCII digits is a number no greater than u32::MAX.
FitsU32(ds) ==
  LET sig == StripZeros(ds)
  IN \/ Len(sig) < Len(U32MaxDigits)
     \/ Len(sig) = Len(U32MaxDigits) /\ DigitsLeq(sig, U32MaxDigits)

\* str::parse::<u32> (main.rs:256): an optional "+", then one or more ASCII
\* digits, the value at most u32::MAX.  (The model's index texts hold no
\* number between 10^9 and u32::MAX.)
parse_u32(token) ==
  LET ds == IF token # <<>> /\ token[1] = "+" THEN Tail(token) ELSE token
  IN IF ds # <<>> /\ (\A i \in 1..Len(ds) : ds[i] \in AsciiDigits) /\ FitsU32(ds)
     THEN DecimalValue(StripZeros(ds))
     ELSE NoNumber

\* The text up to its first whitespace character.
RECURSIVE UntilWhitespace(_)
UntilWhitespace(s) ==
  IF s = <<>> \/ s[1] \in Whitespace THEN <<>>
  ELSE <<s[1]>> \o UntilWhitespace(Tail(s))

\* item.output().split_whitespace().next() (main.rs:256); the empty text
\* stands for None, a token being never empty.
first_token(line) == UntilWhitespace(trim_start(line))

\* The closure of main.rs:255-257 applied to the selected line.
selected_number(line) ==
  LET tok == first_token(line)
  IN IF tok = <<>> THEN NoNumber ELSE parse_u32(tok)

\* ------------------------------------------------------------ the world
\* The RFC numbers the model's index texts and command lines name.
RfcNums == {0, 7}

\* The numbers that are those of published RFCs: there is no RFC 0, and the
\* remote source answers a request for rfc0.txt with a 404 page.
Published == {7}

\* The text the remote source serves for rfc<n>.txt (main.rs:191): published
\* RFCs do not change.
RemoteDoc(n) == <<"s", FF>>

\* The body of a response whose status is not a success (a 404 or 503 page).
ErrorPage == <<"!">>

\* Two editions of rfc-index.txt (main.rs:219): a header line, an entry, a
\* continuation line whose first token is "1.", and in the later edition an
\* entry ended by CR LF and an entry whose number exceeds u32::MAX.
IndexV1 ==
  <<"R", "F", "C", NL, "7", SP, "A", NL, SP, "1", ".", NL>>
IndexV2 ==
  IndexV1 \o <<"0", SP, "Z", CR, NL>>
          \o <<"4", "2", "9", "4", "9", "6", "7", "2", "9", "6", NL>>
IndexEditions == {IndexV1, IndexV2}

\* A file of the cache: absent, or present with a content.
Absent == [exists |-> FALSE, text |-> <<>>]
File(t) == [exists |-> TRUE, text |-> t]

\* A Result<String, _>.
Err == [ok |-> FALSE, text |-> <<>>]
Ok(t) == [ok |-> TRUE, text |-> t]

\* Option::None of an Option<String>, and the queries of the command line.
NoQuery == "None"
Queries == {"791"}

\* The model identifiers of the command line; the first is the default_value
\* of main.rs:36.
DefaultModel == "llama-3.1-8b-instant"
Models == {DefaultModel, "other-model"}

\* What a write of t that fails part-way can leave in the file: the first
\* half of it (nothing, when t is one character).
PartialTexts(t) == {SubSeq(t, 1, Len(t) \div 2)} \ {t}

\* The selector calls of a run that the history keeps apart: the first ones
\* each, and the last one in the place of all those after them.
MaxSelections == 2

VARIABLES
  have_cache_dir, \* dirs::cache_dir() is Some (main.rs:180, 209)
  dir_exists,     \* the directory <cache>/rfcli exists
  index_file,     \* the file rfc-index.txt
  doc_cache,      \* the files rfc<n>.txt, by n
  cmd,            \* the subcommand of this run: "read" or "tldr"
  pc,             \* where the run is
  first_run,      \* main's first_run (main.rs:47)
  initial_query,  \* main's initial_query (main.rs:48)
  model_arg,      \* the model of Commands::Tldr (main.rs:37)
  rfc_num,        \* the number selected or given
  content,        \* the text fetched (and, in read, cleaned)
  pending,        \* the index body being written (main.rs:221)
  sel_log,        \* history: the arguments of the selector calls of this run
  last_sel,       \* history: the refresh and the outcome of the last selector call
  last_fetch,     \* history: the last fetch_rfc call
  downloaded,     \* history: by n, the document its first download returned
  request,        \* history: the requests generate_tldr has sent
  raw_text, cleaned, recleaned, index_data, offered, stage
                  \* the input and the results of the functions applied alone

fsvars == <<have_cache_dir, dir_exists, index_file, doc_cache>>
runvars == <<cmd, pc, first_run, initial_query, model_arg, rfc_num, content, pending>>
histvars == <<sel_log, last_sel, last_fetch, downloaded, request>>
purevars == <<raw_text, cleaned, recleaned, index_data, offered, stage>>
vars == <<fsvars, runvars, histvars, purevars>>

NoSel == [refresh |-> "none", before |-> Absent, cause |-> "none", line |-> <<>>]
NoFetch == [num |-> NoNumber, net |-> FALSE, remote |-> "none",
            prior |-> FALSE, result |-> Err]
NoRequest == [sent |-> 0, model |-> "none", outcome |-> "none"]

\* The functions are not being applied alone.
PureIdle ==
  /\ raw_text = <<>> /\ cleaned = <<>> /\ recleaned = <<>>
  /\ index_data = <<>> /\ offered = <<>> /\ stage = "off"

\* No run has started on a machine that has no cache yet.
Init ==
  /\ have_cache_dir \in BOOLEAN
  /\ dir_exists = FALSE
  /\ index_file = Absent
  /\ doc_cache = [n \in RfcNums |-> Absent]
  /\ cmd = "none" /\ pc = "Idle"
  /\ first_run = FALSE /\ initial_query = NoQuery /\ model_arg = DefaultModel
  /\ rfc_num = NoNumber /\ content = <<>> /\ pending = <<>>
  /\ sel_log = <<>> /\ last_sel = NoSel /\ last_fetch = NoFetch
  /\ downloaded = [n \in RfcNums |-> Absent]
  /\ request = NoRequest
  /\ PureIdle

\* No run is going on: none has started, or the last has ended.
Stopped == pc \in {"Idle", "Exited", "Crashed"}

\* Commands::Read (main.rs:46-48): the locals of the loop are set.
StartRead(refresh, query) ==
  /\ Stopped
  /\ cmd' = "read" /\ pc' = "Selecting"
  /\ first_run' = refresh /\ initial_query' = query
  /\ model_arg' = DefaultModel
  /\ rfc_num' = NoNumber /\ content' = <<>> /\ pending' = <<>>
  /\ sel_log' = <<>> /\ last_sel' = NoSel /\ last_fetch' = NoFetch
  /\ request' = NoRequest
  /\ UNCHANGED <<fsvars, downloaded, purevars>>

\* Commands::Tldr (main.rs:72-77): with a number the fetch is next; without
\* one, fuzzy_select_rfc(false, None).
StartTldr(number, model) ==
  /\ Stopped
  /\ cmd' = "tldr"
  /\ pc' = IF number = NoNumber THEN "Selecting" ELSE "Fetching"
  /\ first_run' = FALSE /\ initial_query' = NoQuery
  /\ model_arg' = model
  /\ rfc_num' = number /\ content' = <<>> /\ pending' = <<>>
  /\ sel_log' = <<>> /\ last_sel' = NoSel /\ last_fetch' = NoFetch
  /\ request' = NoRequest
  /\ UNCHANGED <<fsvars, downloaded, purevars>>

\* ------------------------------------------------------ fuzzy_select_rfc
\* A loop that hands the query to every selection (initial_query.clone()).
query_left_by_clone(q) == q

\* What initial_query.take() leaves in initial_query (main.rs:51).
query_left_by_take(q) == NoQuery

\* A loop that leaves first_run as it is after a selection.
first_run_kept(flag) == flag

\* first_run = false (main.rs:52): what a selection leaves in first_run.
first_run_cleared(flag) == FALSE

\* A caller that selects again when the selector returned None.
after_selection_retry(num) ==
  IF num # NoNumber THEN "Fetching" ELSE "Selecting"

\* Where the caller goes when fuzzy_select_rfc returned num: to the fetch
\* with Some (main.rs:51-55, 80-81), out with None (the break of main.rs:67,
\* the else of main.rs:85-87).
after_selection(num) ==
  IF num # NoNumber THEN "Fetching" ELSE "Exited"

\* The caller's continuation of a fuzzy_select_rfc call that returned num:
\* the if-let of the read loop (main.rs:51-53, 65-68), and the match of tldr
\* (main.rs:74-87).
SelectorReturn(num) ==
  /\ rfc_num' = num
  /\ pc' = after_selection(num)
  /\ first_run' = IF num # NoNumber THEN first_run_cleared(first_run) ELSE FALSE

\* The history of the selector calls with one more call.
Logged(log, call) ==
  IF Len(log) < MaxSelections THEN Append(log, call)
  ELSE [log EXCEPT ![Len(log)] = call]

\* Every fuzzy_select_rfc call takes the arguments first_run and
\* initial_query.take() (main.rs:51; false and None in tldr, main.rs:76).
\* The history keeps them with what the call came after: the start of the
\* run, a fetch whose text was shown, or a fetch that failed.
SelectorCalled(refresh, cause, line) ==
  /\ last_fetch' = NoFetch
  /\ sel_log' = Logged(sel_log, [force_refresh |-> first_run,
                                  query |-> initial_query,
                                  after |-> IF last_fetch.num = NoNumber
                                            THEN "start"
                                            ELSE IF last_fetch.result.ok
                                            THEN "shown" ELSE "failed"])
  /\ last_sel' = [refresh |-> refresh,
                  before |-> IF refresh = "none" THEN Absent ELSE index_file,
                  cause |-> cause, line |-> line]
  /\ initial_query' = query_left_by_take(initial_query)

\* How Skim::run_with and the code after it can end on the index text data
\* (main.rs:227-262): no output, an abort, an accept with nothing selected,
\* or an accept of one of the candidates, whose number is parsed.
SkimOutcomes(data) ==
  {[num |-> NoNumber, cause |-> c, line |-> <<>>] :
      c \in {"no_output", "abort", "no_item"}}
  \cup
  {[num |-> selected_number(l),
    cause |-> IF selected_number(l) = NoNumber THEN "unparsed" ELSE "chosen",
    line |-> l] : l \in {candidates(data)[i] : i \in 1..Len(candidates(data))}}

\* fs::read_to_string(index_path).ok()? (main.rs:225) and what follows it.
ReadOutcomes(data) ==
  {[num |-> NoNumber, cause |-> "read_failed", line |-> <<>>]}
  \cup SkimOutcomes(data)

\* The index has to be downloaded (main.rs:217).
NeedsDownload == ~index_file.exists \/ first_run

\* fuzzy_select_rfc returns None before it writes anything (main.rs:209-221):
\* no cache directory is known, the directory cannot be made, the request or
\* the decoding of its body fails, or the index file cannot be opened.
SelectEarlyFail(cause) ==
  /\ pc = "Selecting"
  /\ \/ cause = "no_cache_dir" /\ ~have_cache_dir /\ UNCHANGED dir_exists
     \/ cause = "mkdir_failed" /\ have_cache_dir /\ ~dir_exists
          /\ UNCHANGED dir_exists
     \/ cause \in {"net_error", "decode_error", "create_failed"}
          /\ have_cache_dir /\ NeedsDownload /\ dir_exists' = TRUE
  /\ SelectorCalled(IF cause \in {"net_error", "decode_error"} THEN cause
                    ELSE IF cause = "create_failed" THEN "ok" ELSE "none",
                    cause, <<>>)
  /\ SelectorReturn(NoNumber)
  /\ UNCHANGED <<have_cache_dir, index_file, doc_cache, cmd, model_arg,
                 content, pending, downloaded, request, purevars>>

\* fuzzy_select_rfc with the index in the cache and no refresh forced
\* (main.rs:208-262): the file is read and the selector run.
SelectCached(out) ==
  /\ pc = "Selecting"
  /\ have_cache_dir /\ dir_exists /\ ~NeedsDownload
  /\ out \in ReadOutcomes(index_file.text)
  /\ SelectorCalled("none", out.cause, out.line)
  /\ SelectorReturn(out.num)
  /\ UNCHANGED <<fsvars, cmd, model_arg, content, pending, downloaded,
                 request, purevars>>

\* fuzzy_select_rfc up to the opening of the index file for writing
\* (main.rs:208-221): the directory is there or made, the download returned
\* a body (of an edition of the index when the status is a success, of an
\* error page when it is not: the status is not looked at), and fs::write
\* has created or truncated the file.
SelectRefresh(status_ok, body) ==
  /\ pc = "Selecting"
  /\ have_cache_dir /\ NeedsDownload
  /\ body \in (IF status_ok THEN IndexEditions ELSE {ErrorPage})
  /\ dir_exists' = TRUE
  /\ index_file' = File(<<>>)
  /\ pending' = body
  /\ pc' = "IndexWriting"
  /\ SelectorCalled(IF status_ok THEN "ok" ELSE "status", "writing", <<>>)
  /\ UNCHANGED <<have_cache_dir, doc_cache, cmd, first_run, model_arg, rfc_num,
                 content, downloaded, request, purevars>>

\* The rest of fuzzy_select_rfc after the file was opened (main.rs:221-262):
\* the body is written; if all of it is, the file is read back and the
\* selector run, otherwise None is returned and the file keeps what was
\* written of it.
IndexWrite(written, out) ==
  /\ pc = "IndexWriting"
  /\ \/ /\ written = pending
        /\ out \in ReadOutcomes(pending)
     \/ /\ written \in PartialTexts(pending)
        /\ out = [num |-> NoNumber, cause |-> "write_failed", line |-> <<>>]
  /\ index_file' = File(written)
  /\ pending' = <<>>
  /\ last_sel' = [last_sel EXCEPT !.cause = out.cause, !.line = out.line]
  /\ SelectorReturn(out.num)
  /\ UNCHANGED <<have_cache_dir, dir_exists, doc_cache, cmd, initial_query,
                 model_arg, content, sel_log, last_fetch, downloaded,
                 request, purevars>>

\* ------------------------------------------------------------- fetch_rfc
\* What fs::write(cache_path, &content) (main.rs:195) can leave at a path
\* that had no file: the text, no file (the file cannot be created, as when
\* its directory is missing), or a part of the text (the write fails after
\* the file was created).  The result is dropped (let _ =).
fs_write(parent_exists, t) ==
  IF parent_exists
  THEN {File(t), Absent} \cup {File(p) : p \in PartialTexts(t)}
  ELSE {Absent}

\* A fetch_rfc that does not look into the cache.
Cached_ignored(n) == FALSE

\* cache_path.exists() (main.rs:186).
Cached(n) == dir_exists /\ doc_cache[n].exists

\* The decimal digits of a number, as format!("{}", number) writes them.
RECURSIVE Decimal(_)
Decimal(n) ==
  LET last == CHOOSE ch \in AsciiDigits : DigitValue(ch) = n % 10
  IN IF n < 10 THEN <<last>> ELSE Decimal(n \div 10) \o <<last>>

\* The name of the cache file of RFC n in <cache>/rfcli (main.rs:183), and
\* that of the index file (main.rs:210).
doc_file_name(n) == <<"r", "f", "c">> \o Decimal(n) \o <<".", "t", "x", "t">>
index_file_name ==
  <<"r", "f", "c", "-", "i", "n", "d", "e", "x", ".", "t", "x", "t">>

\* A read loop that breaks when the fetch failed.
read_after_fetch_break(ok) ==
  IF ok THEN "Displaying" ELSE "Exited"

\* Where the read loop goes when fetch_rfc returned (main.rs:55-64): to the
\* pager with Ok; with Err the error is printed, the thread sleeps two
\* seconds and the loop body ends, so the selector is called again.
read_after_fetch(ok) ==
  IF ok THEN "Displaying" ELSE "Selecting"

\* The caller's continuation of a fetch_rfc call: the match of the read loop
\* (main.rs:55-64), which cleans the text for the pager, and the match of
\* tldr (main.rs:81-84).  The history keeps the last call of each kind only.
FetchReturn(res) ==
  /\ last_sel' = NoSel
  /\ IF cmd = "read"
     THEN /\ pc' = read_after_fetch(res.ok)
          /\ IF res.ok
             THEN /\ content' = clean_rfc_text(res.text)
                  /\ rfc_num' = rfc_num
             ELSE /\ content' = <<>>
                  /\ rfc_num' = NoNumber
     ELSE IF res.ok
          THEN /\ pc' = "Summarizing"
               /\ content' = res.text
               /\ rfc_num' = rfc_num
          ELSE /\ pc' = "Exited"
               /\ content' = <<>>
               /\ rfc_num' = NoNumber

\* fetch_rfc when the cache has the file (main.rs:186-188): it is read, and
\* no request is made.
FetchCached(read_ok) ==
  /\ pc = "Fetching"
  /\ Cached(rfc_num)
  /\ LET res == IF read_ok THEN Ok(doc_cache[rfc_num].text) ELSE Err
     IN /\ last_fetch' = [num |-> rfc_num, net |-> FALSE, remote |-> "none",
                          prior |-> downloaded[rfc_num].exists, result |-> res]
        /\ FetchReturn(res)
  /\ UNCHANGED <<fsvars, cmd, first_run, initial_query, model_arg, pending,
                 sel_log, downloaded, request, purevars>>

\* fetch_rfc when the request or the decoding of the body fails
\* (main.rs:191-192): the error is returned before anything is written.
FetchRemoteFail(kind) ==
  /\ pc = "Fetching"
  /\ ~Cached(rfc_num)
  /\ kind \in {"net_error", "decode_error"}
  /\ last_fetch' = [num |-> rfc_num, net |-> TRUE, remote |-> kind,
                    prior |-> downloaded[rfc_num].exists, result |-> Err]
  /\ FetchReturn(Err)
  /\ UNCHANGED <<fsvars, cmd, first_run, initial_query, model_arg, pending,
                 sel_log, downloaded, request, purevars>>

\* A fetch_rfc that returns the error of the write (fs::write(..)?).
fetch_result_checked(body, file) ==
  IF file = File(body) THEN Ok(body) ELSE Err

\* What fetch_rfc returns after the write to the cache, which left file
\* (main.rs:195-197): the result of the write is dropped, Ok(content).
fetch_result(body, file) == Ok(body)

\* fetch_rfc when the request is answered (main.rs:191-197): the body is that
\* of the document when the status is a success and that of an error page
\* when it is not (reqwest::get(url).await?.text().await? does not look at
\* the status: there is no error_for_status()); it is written to the cache
\* and returned.
FetchRemote(status_ok, file) ==
  /\ pc = "Fetching"
  /\ ~Cached(rfc_num)
  /\ status_ok => rfc_num \in Published
  /\ LET body == IF status_ok THEN RemoteDoc(rfc_num) ELSE ErrorPage
         res == fetch_result(body, file)
     IN /\ file \in fs_write(dir_exists, body)
        /\ doc_cache' = [doc_cache EXCEPT ![rfc_num] = file]
        /\ last_fetch' = [num |-> rfc_num, net |-> TRUE,
                          remote |-> IF status_ok THEN "ok" ELSE "status",
                          prior |-> downloaded[rfc_num].exists, result |-> res]
        /\ downloaded' = IF status_ok /\ ~downloaded[rfc_num].exists
                         THEN [downloaded EXCEPT ![rfc_num] = File(body)]
                         ELSE downloaded
        /\ FetchReturn(res)
  /\ UNCHANGED <<have_cache_dir, dir_exists, index_file, cmd, first_run,
                 initial_query, model_arg, pending, sel_log, request, purevars>>

\* --------------------------------------------------------- view_in_pager
\* view_in_pager (main.rs:266-285) and the end of the loop body: the pager is
\* spawned, fed and waited for, whatever its status, and the loop selects
\* again; a pager that cannot be spawned panics (expect, main.rs:278).
Display(spawned) ==
  /\ pc = "Displaying"
  /\ pc' = IF spawned THEN "Selecting" ELSE "Crashed"
  /\ content' = <<>>
  /\ rfc_num' = NoNumber
  /\ UNCHANGED <<fsvars, cmd, first_run, initial_query, model_arg, pending,
                 histvars, purevars>>

\* --------------------------------------------------------- generate_tldr
\* A summarizer that sends the request again when the transport failed.
requests_sent_retrying(outcome) ==
  IF outcome = "transport_error" THEN 2 ELSE 1

\* The requests one generate_tldr call sends (main.rs:105-123): the one
\* send() of the function, whose outcome is matched once (main.rs:127-174).
requests_sent(outcome) == 1

\* The "model" of the request body (main.rs:110): a literal; the parameter
\* model of generate_tldr (main.rs:90) is not used.
request_model(model) == "llama-3.1-8b-instant"

\* generate_tldr (main.rs:90-175): without GROQ_API_KEY it panics (expect,
\* main.rs:92); otherwise the request is sent, and its outcome (a transport
\* error, a response without a summary, a summary) printed.
Summarize(has_key, outcome) ==
  /\ pc = "Summarizing"
  /\ outcome \in {"transport_error", "no_summary", "summary"}
  /\ IF has_key
     THEN /\ request' = [sent |-> request.sent + requests_sent(outcome),
                          model |-> request_model(model_arg),
                          outcome |-> outcome]
          /\ pc' = "Exited"
     ELSE /\ request' = request
          /\ pc' = "Crashed"
  /\ content' = <<>>
  /\ rfc_num' = NoNumber
  /\ UNCHANGED <<fsvars, cmd, first_run, initial_query, model_arg, pending,
                 sel_log, last_sel, last_fetch, downloaded, purevars>>

\* ------------------------------------------------------ the whole program
Next ==
  \/ \E refresh \in BOOLEAN, query \in Queries \cup {NoQuery} :
       StartRead(refresh, query)
  \/ \E number \in RfcNums \cup {NoNumber}, model \in Models :
       StartTldr(number, model)
  \/ \E cause \in {"no_cache_dir", "mkdir_failed", "net_error", "decode_error",
                   "create_failed"} : SelectEarlyFail(cause)
  \/ \E out \in ReadOutcomes(index_file.text) : SelectCached(out)
  \/ \E status_ok \in BOOLEAN, body \in IndexEditions \cup {ErrorPage} :
       SelectRefresh(status_ok, body)
  \/ \E written \in {pending} \cup PartialTexts(pending),
        out \in ReadOutcomes(pending)
                  \cup {[num |-> NoNumber, cause |-> "write_failed", line |-> <<>>]} :
       IndexWrite(written, out)
  \/ \E read_ok \in BOOLEAN : FetchCached(read_ok)
  \/ \E kind \in {"net_error", "decode_error"} : FetchRemoteFail(kind)
  \/ \E status_ok \in BOOLEAN,
        file \in {Absent} \cup {File(t) : t \in
                   {RemoteDoc(n) : n \in Published} \cup {ErrorPage}
                   \cup UNION {PartialTexts(RemoteDoc(n)) : n \in Published}
                   \cup PartialTexts(ErrorPage)} :
       FetchRemote(status_ok, file)
  \/ \E spawned \in BOOLEAN : Display(spawned)
  \/ \E has_key \in BOOLEAN,
        outcome \in {"transport_error", "no_summary", "summary"} :
       Summarize(has_key, outcome)

Spec == Init /\ [][Next]_vars

\* ------------------------------------------- the functions applied alone
\* The program at rest, while a function is applied alone.
AtRest ==
  /\ have_cache_dir = FALSE
  /\ dir_exists = FALSE
  /\ index_file = Absent
  /\ doc_cache = [n \in RfcNums |-> Absent]
  /\ cmd = "none" /\ pc = "Idle"
  /\ first_run = FALSE /\ initial_query = NoQuery /\ model_arg = DefaultModel
  /\ rfc_num = NoNumber /\ content = <<>> /\ pending = <<>>
  /\ sel_log = <<>> /\ last_sel = NoSel /\ last_fetch = NoFetch
  /\ downloaded = [n \in RfcNums |-> Absent]
  /\ request = NoRequest

\* The texts made of at most k of the given pieces.
RECURSIVE TextsOf(_, _)
TextsOf(pieces, k) ==
  IF k = 0 THEN {<<>>}
  ELSE LET shorter == TextsOf(pieces, k - 1)
       IN shorter \cup {t \o p : t \in shorter, p \in pieces}

\* The pieces of the raw texts: a form feed, a newline, another character,
\* a digit that is not ASCII, the two halves of a page footer "[Page 1]",
\* and a running header "RFC 1".
CleanPieces ==
  {<<FF>>, <<NL>>, <<"x">>, <<ArabicThree>>, PageOpen, <<"1", PageClose>>,
   RfcOpen \o <<"1">>}
MaxPieces == 5

InitClean ==
  /\ AtRest
  /\ raw_text \in TextsOf(CleanPieces, MaxPieces)
  /\ cleaned = <<>> /\ recleaned = <<>>
  /\ index_data = <<>> /\ offered = <<>>
  /\ stage = "raw"

\* clean_rfc_text applied to the raw text (main.rs:57, 94).
CleanOnce ==
  /\ stage = "raw"
  /\ cleaned' = clean_rfc_text(raw_text)
  /\ stage' = "cleaned"
  /\ UNCHANGED <<fsvars, runvars, histvars, raw_text, recleaned, index_data, offered>>

\* clean_rfc_text applied to its own result: generate_tldr cleans the text
\* again (main.rs:94).
CleanAgain ==
  /\ stage = "cleaned"
  /\ recleaned' = clean_rfc_text(cleaned)
  /\ stage' = "recleaned"
  /\ UNCHANGED <<fsvars, runvars, histvars, raw_text, cleaned, index_data, offered>>

NextClean == CleanOnce \/ CleanAgain

SpecClean == InitClean /\ [][NextClean]_vars

\* The pieces of the index texts: the line ends, a space, a digit, a letter.
IndexPieces == {<<NL>>, <<CR>>, <<SP>>, <<"7">>, <<"x">>}
MaxIndexPieces == 5

InitFilter ==
  /\ AtRest
  /\ index_data \in TextsOf(IndexPieces, MaxIndexPieces)
  /\ raw_text = <<>> /\ cleaned = <<>> /\ recleaned = <<>>
  /\ offered = <<>>
  /\ stage = "index"

\* The index text is filtered and handed to the selector (main.rs:225-247).
Filter ==
  /\ stage = "index"
  /\ offered' = candidates(index_data)
  /\ stage' = "offered"
  /\ UNCHANGED <<fsvars, runvars, histvars, raw_text, cleaned, recleaned, index_data>>

NextFilter == Filter

SpecFilter == InitFilter /\ [][NextFilter]_vars

\* ============================================================ the claims
\* The characters of a text.
Chars(t) == {t[i] : i \in 1..Len(t)}

\* The text has three newlines in a row.
HasTripleNewline(t) ==
  \E i \in 1..(Len(t) - 2) : t[i] = NL /\ t[i + 1] = NL /\ t[i + 2] = NL

\* The positions of a text where a maximal run of newlines begins, or where a
\* character that is no newline stands.
UnitStarts(t) ==
  {i \in 1..Len(t) : t[i] # NL \/ i = 1 \/ t[i - 1] # NL}

\* The length of the maximal run of newlines that begins at i (0 when the
\* character at i is no newline).
RunAt(t, i) ==
  IF t[i] # NL THEN 0
  ELSE LET last == CHOOSE j \in i..Len(t) :
                     /\ \A k \in i..j : t[k] = NL
                     /\ (j = Len(t) \/ t[j + 1] # NL)
       IN last - i + 1

\* The text as its units in order: each character that is no newline, and
\* each maximal run of newlines with its length.
Profile(t) ==
  LET starts == UnitStarts(t)
      at == SelectSeq([i \in 1..Len(t) |-> i], LAMBDA i : i \in starts)
  IN [k \in 1..Len(at) |-> [ch |-> t[at[k]], run |-> RunAt(t, at[k])]]

\* The text between the removal of the artifact lines and the collapse of the
\* newlines (main.rs:203).
AfterLineRemoval == header_footer_re(no_feeds(raw_text))

\* C1 (as the claim states it; the code does otherwise): the read loop does
\* not exit when the selector ended with a chosen line whose leading token
\* fails to parse as an integer: it exits on an explicit cancellation only.
C1_UnparsedSelectionDoesNotExit ==
  (cmd = "read" /\ pc = "Exited") => last_sel.cause # "unparsed"

\* C2 (as the claim states it; the code does otherwise): once fetch_rfc(n)
\* has succeeded by downloading, a later fetch_rfc(n) makes no network
\* request and returns the text the download returned.
C2_ReadThrough ==
  last_fetch.prior =>
    /\ ~last_fetch.net
    /\ last_fetch.result = Ok(downloaded[last_fetch.num].text)

\* C3 (as the claim states it; the code does otherwise): when the remote
\* retrieval of fetch_rfc(n) fails by a network error, a non-success status
\* or a decode error, fetch_rfc returns an error and the cache has no file
\* for n.
C3_RemoteFailureLeavesNoEntry ==
  last_fetch.remote \in {"net_error", "status", "decode_error"} =>
    /\ ~last_fetch.result.ok
    /\ ~doc_cache[last_fetch.num].exists

\* C4 (as the claim states it; the code does otherwise): when a selection
\* attempt refreshed the index and the download failed (a network error, a
\* decode error or a non-success status), an index file that existed before
\* the attempt has the same content after it.  Stated for an index file that
\* held an edition of the index, and for an attempt in which no write to the
\* file failed.
C4_FailedRefreshKeepsIndex ==
  ( /\ pc # "IndexWriting"
    /\ last_sel.refresh \in {"net_error", "decode_error", "status"}
    /\ last_sel.cause # "write_failed"
    /\ last_sel.before.exists
    /\ last_sel.before.text \in IndexEditions )
  => index_file = last_sel.before

\* C5 (as the claim states it; the code does otherwise): at every step of an
\* index refresh the index file holds the whole previous content or the
\* whole new content.  Stated for the refresh of an index file that held an
\* edition of the index, with a downloaded edition, while the file is being
\* written.
C5_IndexOverwriteIsAtomic ==
  ( /\ pc = "IndexWriting"
    /\ last_sel.refresh = "ok"
    /\ last_sel.before.exists
    /\ last_sel.before.text \in IndexEditions )
  => index_file \in {last_sel.before, File(pending)}

\* C6: clean_rfc_text applied to its own result returns that result.
C6_CleanIdempotent ==
  stage = "recleaned" => recleaned = cleaned

\* C6 witness: a text with a form feed and an artifact line, whose cleaning
\* collapsed newlines, was cleaned twice.
C6_Witness ==
  /\ stage = "recleaned"
  /\ FF \in Chars(raw_text)
  /\ AfterLineRemoval # no_feeds(raw_text)
  /\ cleaned # AfterLineRemoval

\* C7: the output of clean_rfc_text has no three newlines in a row, and it is
\* the text left by the removal of the artifact lines with each run of three
\* or more newlines made a run of two, and every other run of newlines and
\* every other character as it was.
C7_NewlineRunsCollapsed ==
  stage \in {"cleaned", "recleaned"} =>
    LET before == Profile(AfterLineRemoval)
    IN /\ ~HasTripleNewline(cleaned)
       /\ Profile(cleaned) =
            [k \in 1..Len(before) |->
               IF before[k].run >= 3 THEN [ch |-> NL, run |-> 2] ELSE before[k]]

\* C7 witness: the removal of an artifact line made a run of three newlines
\* or more that the raw text did not have, and the cleaned text has a run of
\* two in its place.
C7_Witness ==
  /\ stage = "cleaned"
  /\ ~HasTripleNewline(raw_text)
  /\ HasTripleNewline(AfterLineRemoval)
  /\ \E k \in 1..Len(Profile(cleaned)) : Profile(cleaned)[k].run = 2

\* C8: the output of clean_rfc_text has no form feed.
C8_NoFormFeed ==
  stage \in {"cleaned", "recleaned"} => FF \notin Chars(cleaned)

\* C8 witness: a text with two form feeds or more was cleaned.
C8_Witness ==
  /\ stage = "cleaned"
  /\ Cardinality({i \in 1..Len(raw_text) : raw_text[i] = FF}) >= 2
  /\ cleaned # <<>>

\* The first character of the line that is no whitespace is an ASCII digit.
FirstNonBlankIsDigit(line) ==
  \E i \in 1..Len(line) :
    /\ line[i] \in AsciiDigits
    /\ \A j \in 1..(i - 1) : line[j] \in Whitespace

\* C9: the candidates handed to the selector are the lines of the index text
\* whose first non-whitespace character is an ASCII digit, all of them, in
\* the order of the index.
C9_CandidatesAreDigitLines ==
  stage = "offered" =>
    LET all == Lines(index_data)
        keep == SelectSeq([i \in 1..Len(all) |-> i],
                          LAMBDA i : FirstNonBlankIsDigit(all[i]))
    IN offered = [k \in 1..Len(keep) |-> all[keep[k]]]

\* C9 witness: an index with a line that begins with whitespace and then a
\* digit, which is offered, and with a blank or whitespace-only line and a
\* line that begins with a letter, which are not.
C9_Witness ==
  /\ stage = "offered"
  /\ \E k \in 1..Len(offered) : offered[k][1] \in Whitespace
  /\ \E i \in 1..Len(Lines(index_data)) : trim(Lines(index_data)[i]) = <<>>
  /\ \E i \in 1..Len(Lines(index_data)) :
       Lines(index_data)[i] # <<>> /\ Lines(index_data)[i][1] = "x"

\* C10: in a read session the first selector call receives the query of the
\* command line, and every later call receives none.
C10_QueryOnFirstSelectionOnly ==
  [][(cmd = "read" /\ pc = "Selecting") =>
       sel_log'[Len(sel_log')].query =
         (IF sel_log = <<>> THEN initial_query ELSE NoQuery)]_vars

\* C10 witness: a read session that began with a query has made a second
\* selector call, which received none.
C10_Witness ==
  /\ cmd = "read"
  /\ Len(sel_log) >= 2
  /\ sel_log[1].query \in Queries
  /\ sel_log[Len(sel_log)].query = NoQuery

\* C11: in a read session the selector is called with force_refresh true on
\* the first call at most: every later call of the session is made with
\* force_refresh false, after a fetch that succeeded as after one that
\* failed.
C11_RefreshOnFirstSelectionOnly ==
  cmd = "read" =>
    /\ \A i \in 2..Len(sel_log) :
         /\ ~sel_log[i].force_refresh
         /\ sel_log[i].after \in {"shown", "failed"}
    /\ sel_log # <<>> => sel_log[1].after = "start"

\* C11 witness: a read session that began with the refresh forced has made a
\* second selector call after a failed fetch, with the refresh not forced.
C11_Witness ==
  /\ cmd = "read"
  /\ Len(sel_log) >= 2
  /\ sel_log[1].force_refresh
  /\ sel_log[2].after = "failed"
  /\ ~sel_log[2].force_refresh

\* C12 (as the claim states it; the code does otherwise): in a read session
\* a selection attempt that failed does not end the loop.  Stated for an
\* attempt that failed because the download of the index failed.
C12_FailedSelectionDoesNotExit ==
  (cmd = "read" /\ pc = "Exited") =>
    last_sel.cause \notin {"net_error", "decode_error"}

\* C13: when the download of fetch_rfc(n) succeeds and the write of the cache
\* file fails (no file, or a part of the text, is left), fetch_rfc returns
\* the downloaded text as a success, and the read loop goes on to display
\* it, cleaned.
C13_WriteFailureStillReturns ==
  [][( /\ pc = "Fetching"
       /\ last_fetch'.remote = "ok"
       /\ doc_cache'[rfc_num] # File(RemoteDoc(rfc_num)) )
     => /\ last_fetch'.result = Ok(RemoteDoc(rfc_num))
        /\ cmd = "read" =>
             /\ pc' = "Displaying"
             /\ content' = clean_rfc_text(RemoteDoc(rfc_num))]_vars

\* C13 witness: in a read session whose cache directory exists a download
\* succeeded, its write left no file, and the text is being displayed.
C13_Witness ==
  /\ cmd = "read" /\ pc = "Displaying"
  /\ dir_exists
  /\ last_fetch.remote = "ok"
  /\ ~doc_cache[last_fetch.num].exists
  /\ content = clean_rfc_text(RemoteDoc(last_fetch.num))

\* C14: one call of generate_tldr sends one request to the backend at most,
\* whether the request fails in transport, is answered without a summary,
\* or is answered with one.
C14_SingleRequest ==
  cmd = "tldr" =>
    /\ request.sent <= 1
    /\ request.sent = 1 <=>
         request.outcome \in {"transport_error", "no_summary", "summary"}

\* C14 witness: a tldr run has ended after a request that failed in
\* transport.
C14_Witness ==
  /\ cmd = "tldr" /\ pc = "Exited"
  /\ request.sent = 1
  /\ request.outcome = "transport_error"

\* C15 (as the claim states it; the code does otherwise): when the selector
\* ended with a chosen line and a number was returned, the number is the
\* leading whitespace-delimited token of the line parsed as an integer, and
\* it is positive: a token whose value is 0 gives no selection.
C15_ChosenNumberIsPositive ==
  (pc = "Fetching" /\ last_sel.cause = "chosen") =>
    /\ rfc_num = parse_u32(first_token(last_sel.line))
    /\ rfc_num > 0

\* C16: in the read loop a fetch_rfc call that returns an error (the request
\* or the decoding of its body failed, or the cache file could not be read)
\* is followed by the selector: the loop goes neither to the pager nor out.
C16_FailedFetchReturnsToSelecting ==
  [][(cmd = "read" /\ pc = "Fetching" /\ ~last_fetch'.result.ok)
     => pc' = "Selecting" /\ content' = <<>>]_vars

\* C16 witness: a read session is at the selector again after a fetch whose
\* request failed.
C16_Witness ==
  /\ cmd = "read" /\ pc = "Selecting"
  /\ last_fetch.num \in RfcNums
  /\ last_fetch.remote = "net_error"
  /\ ~last_fetch.result.ok

\* C17 (as the claim states it; the code does otherwise): in the read loop
\* every Displaying is followed by Selecting, whatever happens to the pager,
\* a failure to start it included.
C17_DisplayingReturnsToSelecting ==
  [][(cmd = "read" /\ pc = "Displaying") => pc' = "Selecting"]_vars

\* C18: the stages of the read loop come one after the other.  A fetch
\* starts only when the selector call before it returned the number of the
\* chosen line, and it is the fetch of that number; the pager starts only
\* when the fetch before it returned a text, and it is given that text,
\* cleaned; and when the selector returns on an abort the session ends: the
\* next step, if any, is the start of another run.
C18_SequentialStages ==
  [][ /\ (cmd' = "read" /\ pc' = "Fetching") =>
           /\ cmd = "read" /\ pc \in {"Selecting", "IndexWriting"}
           /\ last_sel'.cause = "chosen"
           /\ rfc_num' = selected_number(last_sel'.line)
           /\ rfc_num' # NoNumber
      /\ pc' = "Displaying" =>
           /\ cmd = "read" /\ pc = "Fetching"
           /\ last_fetch'.num = rfc_num
           /\ last_fetch'.result.ok
           /\ content' = clean_rfc_text(last_fetch'.result.text)
      /\ ( /\ cmd = "read" /\ pc \in {"Selecting", "IndexWriting"}
           /\ last_sel'.cause = "abort" ) => pc' = "Exited"
      /\ (cmd = "read" /\ pc = "Exited") =>
           /\ sel_log' = <<>> /\ last_fetch' = NoFetch
           /\ pc' \in {"Selecting", "Fetching"}
           /\ pc' = "Fetching" => cmd' = "tldr"
    ]_vars

\* C18 witness: a read session that selected, fetched and displayed a text
\* has ended on an abort of its next selection.
C18_Witness ==
  /\ cmd = "read" /\ pc = "Exited"
  /\ last_sel.cause = "abort"
  /\ Len(sel_log) >= 2
  /\ sel_log[2].after = "shown"
  /\ last_fetch = NoFetch

\* C19: a cache file of a document that exists is left as it is by every
\* step of the program (a fetch, a selector call, a refresh of the index),
\* and a fetch of a number whose cache file exists makes no network request;
\* the cache files of the documents and the index file have names that
\* differ.
C19_CacheEntryImmutable ==
  [][ /\ \A n \in RfcNums :
           doc_cache[n].exists => doc_cache'[n] = doc_cache[n]
      /\ (pc = "Fetching" /\ doc_cache[rfc_num].exists) =>
           /\ ~last_fetch'.net
           /\ last_fetch'.result.ok =>
                last_fetch'.result.text = doc_cache[rfc_num].text
      /\ \A n \in RfcNums :
           /\ doc_file_name(n) # index_file_name
           /\ \A m \in RfcNums \ {n} : doc_file_name(m) # doc_file_name(n)
    ]_vars

\* C19 witness: a read session that began with a forced refresh of the
\* index, made while the cache file of a document existed, then fetched
\* that document from the cache, without a request.
C19_Witness ==
  /\ cmd = "read" /\ pc = "Displaying"
  /\ Len(sel_log) = 1 /\ sel_log[1].force_refresh
  /\ index_file.exists
  /\ doc_cache[last_fetch.num].exists
  /\ ~last_fetch.net
  /\ last_fetch.result = Ok(doc_cache[last_fetch.num].text)

\* C20 (as the claim states it; the code does otherwise): the model of the
\* request generate_tldr sends is the model of the tldr invocation: the
\* default one when the command line gives none, the given one otherwise.
C20_RequestCarriesInvocationModel ==
  (cmd = "tldr" /\ request.sent > 0) => request.model = model_arg

====
